---------------------------- MODULE Spec2Model ----------------------------
(***************************************************************************)
(* A model of app.py, the Streamlit script that turns pasted code into a   *)
(* flowchart: model discovery, the generate button, the two completion     *)
(* calls, the extraction of the JSON graph from the completion text, the   *)
(* styling of nodes and edges, and what is put on the page.                *)
(*                                                                         *)
(* Text is a sequence of one-character strings, so that find, slicing,     *)
(* lower-casing, substring tests and JSON parsing are computed, not        *)
(* assumed.                                                                *)
(***************************************************************************)
EXTENDS Integers, Sequences, FiniteSets, TLC

(***************************************************************************)
(* Text: str.lower, the `in` substring test, str.strip, str.find/rfind.    *)
(***************************************************************************)
UpperCase == <<"A", "B", "C", "D", "E", "F", "G", "H", "I", "J", "K", "L", "M", "N", "O", "P", "Q", "R", "S", "T", "U", "V", "W", "X", "Y", "Z">>
LowerCase == <<"a", "b", "c", "d", "e", "f", "g", "h", "i", "j", "k", "l", "m", "n", "o", "p", "q", "r", "s", "t", "u", "v", "w", "x", "y", "z">>

LowerChar(c) ==
    IF \E i \in 1..Len(UpperCase) : UpperCase[i] = c
    THEN LowerCase[CHOOSE i \in 1..Len(UpperCase) : UpperCase[i] = c]
    ELSE c

\* str.lower()
Lower(s) == [i \in 1..Len(s) |-> LowerChar(s[i])]

\* kw in s  (substring test)
Contains(s, kw) ==
    \E i \in 0..(Len(s) - Len(kw)) : SubSeq(s, i + 1, i + Len(kw)) = kw

PyWhitespace == {" ", "\n", "\t", "\r"}

\* str.strip()
Strip(s) ==
    IF \A i \in 1..Len(s) : s[i] \in PyWhitespace
    THEN <<>>
    ELSE LET a == CHOOSE i \in 1..Len(s) :
                     /\ s[i] \notin PyWhitespace
                     /\ \A j \in 1..(i - 1) : s[j] \in PyWhitespace
             b == CHOOSE i \in 1..Len(s) :
                     /\ s[i] \notin PyWhitespace
                     /\ \A j \in (i + 1)..Len(s) : s[j] \in PyWhitespace
         IN  SubSeq(s, a, b)

\* str.find(c): the 0-based index of the first c, or -1
Find(s, c) ==
    IF \E i \in 1..Len(s) : s[i] = c
    THEN (CHOOSE i \in 1..Len(s) : s[i] = c /\ \A j \in 1..(i - 1) : s[j] # c) - 1
    ELSE -1

\* str.rfind(c): the 0-based index of the last c, or -1
RFind(s, c) ==
    IF \E i \in 1..Len(s) : s[i] = c
    THEN (CHOOSE i \in 1..Len(s) : s[i] = c /\ \A j \in (i + 1)..Len(s) : s[j] # c) - 1
    ELSE -1

(***************************************************************************)
(* JSON values, as json.loads builds them.  One record shape for all:      *)
(* t is the Python type, s the text of a str / the digits of an int / the  *)
(* literal of a bool, keys and items the keys and values of a dict (in     *)
(* insertion order), items the elements of a list.                         *)
(***************************************************************************)
JNull == [t |-> "null", s |-> <<>>, keys |-> <<>>, items |-> <<>>]
JBool(lit) == [t |-> "bool", s |-> lit, keys |-> <<>>, items |-> <<>>]
JNum(digits) == [t |-> "num", s |-> digits, keys |-> <<>>, items |-> <<>>]
JStr(chars) == [t |-> "str", s |-> chars, keys |-> <<>>, items |-> <<>>]
JArr(xs) == [t |-> "arr", s |-> <<>>, keys |-> <<>>, items |-> xs]
JObj(ks, vs) == [t |-> "obj", s |-> <<>>, keys |-> ks, items |-> vs]

HasKey(v, k) == v.t = "obj" /\ \E i \in 1..Len(v.keys) : v.keys[i] = k
Get(v, k) == v.items[CHOOSE i \in 1..Len(v.keys) : v.keys[i] = k]

\* dict[k] = x : a key already present keeps its place and takes the new value
Put(v, k, x) ==
    IF HasKey(v, k)
    THEN JObj(v.keys, [i \in 1..Len(v.items) |-> IF v.keys[i] = k THEN x ELSE v.items[i]])
    ELSE JObj(Append(v.keys, k), Append(v.items, x))

(***************************************************************************)
(* json.dumps with the default separators (", " and ": ").                 *)
(***************************************************************************)
RECURSIVE Flatten(_)
Flatten(ss) == IF ss = <<>> THEN <<>> ELSE Head(ss) \o Flatten(Tail(ss))

\* the body of a JSON string, with its escapes
EscapeChars(s) ==
    Flatten([i \in 1..Len(s) |->
        CASE s[i] = "\"" \/ s[i] = "\\" -> <<"\\", s[i]>>
          [] s[i] = "\n" -> <<"\\", "n">>
          [] s[i] = "\t" -> <<"\\", "t">>
          [] s[i] = "\r" -> <<"\\", "r">>
          [] OTHER -> <<s[i]>>])

Quote(s) == <<"\"">> \o EscapeChars(s) \o <<"\"">>

\* the separator before element i at nesting depth d: ", " without indent,
\* else a line break and indent * d spaces (after a "," for i > 1)
RECURSIVE Spaces(_)
Spaces(n) == IF n <= 0 THEN <<>> ELSE <<" ">> \o Spaces(n - 1)
Newline(indent, d) == <<"\n">> \o Spaces(indent * d)
Separator(i, indent, d) ==
    IF indent < 0 THEN (IF i > 1 THEN <<",", " ">> ELSE <<>>)
    ELSE (IF i > 1 THEN <<",">> ELSE <<>>) \o Newline(indent, d)

\* json.dumps(v, indent=indent) at nesting depth d; indent < 0 stands for None
RECURSIVE Dumps(_, _, _)
Dumps(v, indent, d) ==
    CASE v.t = "null" -> <<"n", "u", "l", "l">>
      [] v.t = "bool" -> v.s
      [] v.t = "num"  -> v.s
      [] v.t = "str"  -> Quote(v.s)
      [] v.t = "arr"  ->
            IF v.items = <<>> THEN <<"[", "]">>
            ELSE <<"[">> \o
                 Flatten([i \in 1..Len(v.items) |->
                     Separator(i, indent, d + 1) \o Dumps(v.items[i], indent, d + 1)])
                 \o (IF indent < 0 THEN <<>> ELSE Newline(indent, d)) \o <<"]">>
      [] v.t = "obj"  ->
            IF v.items = <<>> THEN <<"{", "}">>
            ELSE <<"{">> \o
                 Flatten([i \in 1..Len(v.items) |->
                     Separator(i, indent, d + 1) \o Quote(v.keys[i]) \o <<":", " ">>
                     \o Dumps(v.items[i], indent, d + 1)])
                 \o (IF indent < 0 THEN <<>> ELSE Newline(indent, d)) \o <<"}">>

\* json.dumps(v)
JsonDumps(v) == Dumps(v, -1, 0)

(***************************************************************************)
(* json.loads: the decoder of the standard library, for the grammar the    *)
(* model's texts use: objects, arrays, strings (escapes \" \\ \/ \n \t \r),*)
(* integers, null, true, false, whitespace.  A position is the 1-based     *)
(* index of the next character; a result is [ok, v, i].                    *)
(***************************************************************************)
JsonWhitespace == {" ", "\t", "\n", "\r"}
Digits == {"0", "1", "2", "3", "4", "5", "6", "7", "8", "9"}

NoParse == [ok |-> FALSE, v |-> JNull, i |-> 0]
Parsed(val, next) == [ok |-> TRUE, v |-> val, i |-> next]

\* s[i:i+1], "" past the end
At(s, i) == IF i >= 1 /\ i <= Len(s) THEN s[i] ELSE ""

\* s[a-1:b], cut at the end of s as Python cuts a slice
Slice(s, a, b) == SubSeq(s, a, IF b > Len(s) THEN Len(s) ELSE b)

\* WHITESPACE.match(s, i).end()
RECURSIVE SkipWs(_, _)
SkipWs(s, i) == IF At(s, i) \in JsonWhitespace THEN SkipWs(s, i + 1) ELSE i

\* scanstring, strict: i is the position after the opening quote
RECURSIVE ScanString(_, _, _)
ScanString(s, i, acc) ==
    LET c == At(s, i)
        e == At(s, i + 1)
    IN  CASE c = "" -> NoParse
          [] c = "\"" -> Parsed(JStr(acc), i + 1)
          [] c = "\\" ->
                CASE e \in {"\"", "\\", "/"} -> ScanString(s, i + 2, Append(acc, e))
                  [] e = "n" -> ScanString(s, i + 2, Append(acc, "\n"))
                  [] e = "t" -> ScanString(s, i + 2, Append(acc, "\t"))
                  [] e = "r" -> ScanString(s, i + 2, Append(acc, "\r"))
                  [] OTHER -> NoParse
          [] c \in {"\n", "\t", "\r"} -> NoParse
          [] OTHER -> ScanString(s, i + 1, Append(acc, c))

RECURSIVE ScanDigits(_, _)
ScanDigits(s, i) == IF At(s, i) \in Digits THEN ScanDigits(s, i + 1) ELSE i

\* NUMBER_RE, integer part: -?(0|[1-9][0-9]*)
ScanNumber(s, i) ==
    LET d == IF At(s, i) = "-" THEN i + 1 ELSE i
        e == IF At(s, d) = "0" THEN d + 1 ELSE ScanDigits(s, d)
    IN  IF At(s, d) \in Digits
        THEN Parsed(JNum(IF SubSeq(s, i, e - 1) = <<"-", "0">>
                         THEN <<"0">> ELSE SubSeq(s, i, e - 1)), e)
        ELSE NoParse

RECURSIVE ScanOnce(_, _)
RECURSIVE ObjectMembers(_, _, _)
RECURSIVE ArrayItems(_, _, _)

\* JSONObject: i is the position after "{"
JSONObject(s, i) ==
    LET j == IF At(s, i) # "\"" THEN SkipWs(s, i) ELSE i
    IN  CASE At(s, j) = "}" -> Parsed(JObj(<<>>, <<>>), j + 1)
          [] At(s, j) = "\"" -> ObjectMembers(s, j + 1, JObj(<<>>, <<>>))
          [] OTHER -> NoParse

\* the loop of JSONObject: i is the position after the key's opening quote
ObjectMembers(s, i, acc) ==
    LET k == ScanString(s, i, <<>>)
        c == IF At(s, k.i) # ":" THEN SkipWs(s, k.i) ELSE k.i
        x == ScanOnce(s, SkipWs(s, c + 1))
        e == SkipWs(s, x.i)
        n == SkipWs(s, e + 1)
    IN  CASE ~k.ok -> NoParse
          [] At(s, c) # ":" -> NoParse
          [] ~x.ok -> NoParse
          [] At(s, e) = "}" -> Parsed(Put(acc, k.v.s, x.v), e + 1)
          [] At(s, e) # "," -> NoParse
          [] At(s, n) # "\"" -> NoParse
          [] OTHER -> ObjectMembers(s, n + 1, Put(acc, k.v.s, x.v))

\* JSONArray: i is the position after "["
JSONArray(s, i) ==
    LET j == SkipWs(s, i)
    IN  IF At(s, j) = "]" THEN Parsed(JArr(<<>>), j + 1)
        ELSE ArrayItems(s, j, <<>>)

\* the loop of JSONArray: i is the position of the next element
ArrayItems(s, i, acc) ==
    LET x == ScanOnce(s, i)
        e == SkipWs(s, x.i)
    IN  CASE ~x.ok -> NoParse
          [] At(s, e) = "]" -> Parsed(JArr(Append(acc, x.v)), e + 1)
          [] At(s, e) # "," -> NoParse
          [] OTHER -> ArrayItems(s, SkipWs(s, e + 1), Append(acc, x.v))

\* scan_once
ScanOnce(s, i) ==
    LET c == At(s, i)
    IN  CASE c = "\"" -> ScanString(s, i + 1, <<>>)
          [] c = "{" -> JSONObject(s, i + 1)
          [] c = "[" -> JSONArray(s, i + 1)
          [] c = "n" /\ Slice(s, i, i + 3) = <<"n", "u", "l", "l">> -> Parsed(JNull, i + 4)
          [] c = "t" /\ Slice(s, i, i + 3) = <<"t", "r", "u", "e">> -> Parsed(JBool(<<"t", "r", "u", "e">>), i + 4)
          [] c = "f" /\ Slice(s, i, i + 4) = <<"f", "a", "l", "s", "e">> -> Parsed(JBool(<<"f", "a", "l", "s", "e">>), i + 5)
          [] c \in Digits \cup {"-"} -> ScanNumber(s, i)
          [] OTHER -> NoParse

\* json.loads(s): [ok |-> FALSE] stands for JSONDecodeError
JsonLoads(s) ==
    LET r == ScanOnce(s, SkipWs(s, 1))
    IN  IF r.ok /\ SkipWs(s, r.i) = Len(s) + 1 THEN r ELSE NoParse

(***************************************************************************)
(* Python's operations on a parsed value.                                  *)
(***************************************************************************)
\* k in v : defined for dict (key), list (element) and str (substring);
\* a TypeError for int, bool and None
InDefined(v) == v.t \in {"obj", "arr", "str"}
In(k, v) ==
    CASE v.t = "obj" -> HasKey(v, k)
      [] v.t = "arr" -> \E i \in 1..Len(v.items) : v.items[i] = JStr(k)
      [] v.t = "str" -> Contains(v.s, k)
      [] OTHER -> FALSE

\* v[k] raises unless v is a dict holding k
Subscriptable(v, k) == HasKey(v, k)

\* iter(v): the elements of a list, the keys of a dict, the characters of a
\* str; a TypeError for int, bool and None
Iterable(v) == v.t \in {"obj", "arr", "str"}
Elements(v) ==
    CASE v.t = "arr" -> v.items
      [] v.t = "obj" -> [i \in 1..Len(v.keys) |-> JStr(v.keys[i])]
      [] v.t = "str" -> [i \in 1..Len(v.s) |-> JStr(<<v.s[i]>>)]
      [] OTHER -> <<>>

\* format(v) inside an f-string, for str, int, bool and None
PyStr(v) ==
    CASE v.t = "str" -> v.s
      [] v.t = "num" -> v.s
      [] v.t = "bool" -> IF v.s = <<"t", "r", "u", "e">> THEN <<"T", "r", "u", "e">> ELSE <<"F", "a", "l", "s", "e">>
      [] v.t = "null" -> <<"N", "o", "n", "e">>

(***************************************************************************)
(* The styling rules.                                                      *)
(***************************************************************************)
Blue == "#1E90FF"
Green == "#32CD32"
Yellow == "#FFD700"
Purple == "#8A2BE2"
Red == "#FF6347"
LightBlue == "#ADD8E6"
Gray == "#666666"
LoopBlue == "#0000FF"

\* the rule for "return"/"end" tried before the rule for decisions
NodeStyleEndFirst(node_label) ==
    LET l == Lower(node_label)
    IN  IF Contains(l, <<"s", "t", "a", "r", "t">>)
        THEN [shape |-> "oval", fillcolor |-> Green, fontcolor |-> "white"]
        ELSE IF Contains(l, <<"r", "e", "t", "u", "r", "n">>) \/ Contains(l, <<"e", "n", "d">>)
        THEN [shape |-> "oval", fillcolor |-> Purple, fontcolor |-> "white"]
        ELSE IF \/ Contains(l, <<"c", "h", "e", "c", "k">>) \/ Contains(l, <<"i", "f">>)
                \/ Contains(l, <<"l", "o", "o", "p">>) \/ Contains(l, <<"c", "o", "n", "d", "i", "t", "i", "o", "n">>)
        THEN [shape |-> "diamond", fillcolor |-> Yellow, fontcolor |-> "black"]
        ELSE IF Contains(l, <<"c", "a", "l", "l">>) \/ Contains(l, <<"f", "u", "n", "c", "t", "i", "o", "n">>)
        THEN [shape |-> "box", fillcolor |-> Red, fontcolor |-> "white"]
        ELSE IF \/ Contains(l, <<"i", "n", "i", "t", "i", "a", "l", "i", "z", "e">>) \/ Contains(l, <<"v", "a", "r", "i", "a", "b", "l", "e">>)
                \/ Contains(l, <<"a", "s", "s", "i", "g", "n">>)
        THEN [shape |-> "box", fillcolor |-> LightBlue, fontcolor |-> "black"]
        ELSE [shape |-> "box", fillcolor |-> Blue, fontcolor |-> "white"]

NodeStyle(node_label) ==
    LET l == Lower(node_label)
    IN  IF Contains(l, <<"s", "t", "a", "r", "t">>)
        THEN [shape |-> "oval", fillcolor |-> Green, fontcolor |-> "white"]
        ELSE IF \/ Contains(l, <<"c", "h", "e", "c", "k">>) \/ Contains(l, <<"i", "f">>)
                \/ Contains(l, <<"l", "o", "o", "p">>) \/ Contains(l, <<"c", "o", "n", "d", "i", "t", "i", "o", "n">>)
        THEN [shape |-> "diamond", fillcolor |-> Yellow, fontcolor |-> "black"]
        ELSE IF Contains(l, <<"r", "e", "t", "u", "r", "n">>) \/ Contains(l, <<"e", "n", "d">>)
        THEN [shape |-> "oval", fillcolor |-> Purple, fontcolor |-> "white"]
        ELSE IF Contains(l, <<"c", "a", "l", "l">>) \/ Contains(l, <<"f", "u", "n", "c", "t", "i", "o", "n">>)
        THEN [shape |-> "box", fillcolor |-> Red, fontcolor |-> "white"]
        ELSE IF \/ Contains(l, <<"i", "n", "i", "t", "i", "a", "l", "i", "z", "e">>) \/ Contains(l, <<"v", "a", "r", "i", "a", "b", "l", "e">>)
                \/ Contains(l, <<"a", "s", "s", "i", "g", "n">>)
        THEN [shape |-> "box", fillcolor |-> LightBlue, fontcolor |-> "black"]
        ELSE [shape |-> "box", fillcolor |-> Blue, fontcolor |-> "white"]

\* "yes" and "no" tested as substrings, like the other keywords
EdgeColorBySubstring(label_text) ==
    LET l == Lower(label_text)
    IN  IF Contains(l, <<"y", "e", "s">>) \/ Contains(l, <<"t", "r", "u", "e">>) THEN Green
        ELSE IF Contains(l, <<"n", "o">>) \/ Contains(l, <<"f", "a", "l", "s", "e">>) THEN Red
        ELSE IF Contains(l, <<"i", "t", "e", "r", "a", "t", "i", "o", "n">>) \/ Contains(l, <<"l", "o", "o", "p">>) THEN LoopBlue
        ELSE Gray

EdgeColor(label_text) ==
    LET l == Lower(label_text)
    IN  IF l = <<"y", "e", "s">> \/ Contains(l, <<"t", "r", "u", "e">>) THEN Green
        ELSE IF l = <<"n", "o">> \/ Contains(l, <<"f", "a", "l", "s", "e">>) THEN Red
        ELSE IF Contains(l, <<"i", "t", "e", "r", "a", "t", "i", "o", "n">>) \/ Contains(l, <<"l", "o", "o", "p">>) THEN LoopBlue
        ELSE Gray

(***************************************************************************)
(* The state of one run of the script.  Streamlit runs the script from the *)
(* top on every interaction; st.stop() ends the run where it is called.    *)
(***************************************************************************)
VARIABLES
    openrouter_api_key,  \* "set" or "unset": the environment of the process
    prev_failed,         \* history: the previous run ended in a failed completion call
    pc,                  \* the place of the run in the script
    code_input,          \* the text area
    pressed,             \* what st.button returns in this run
    resp,                \* what client.models.list() answered
    available_models,
    model_choice,
    calls,               \* the completion calls made, in order
    flowchart_response,  \* choices[0].message.content of the flowchart call
    flowchart_output,
    code_explanation,
    json_string,
    graph_data,
    pending,             \* the elements the running for loop has still to visit
    dot,                 \* the Digraph: [nodes, edges]
    screen               \* what the run has put on the page, in order

vars == <<openrouter_api_key, prev_failed, pc, code_input, pressed,
          resp, available_models, model_choice, calls, flowchart_response,
          flowchart_output, code_explanation, json_string, graph_data,
          pending, dot, screen>>

inputVars == <<openrouter_api_key, prev_failed, code_input, pressed>>
modelVars == <<resp, available_models, model_choice>>
callVars == <<calls, flowchart_response, flowchart_output, code_explanation>>
graphVars == <<json_string, graph_data>>
drawVars == <<pending, dot>>

\* one element put on the page: the st.* call, which message, and its text
Show(w, msg, arg) == [w |-> w, msg |-> msg, arg |-> arg]

\* the handler of the try block: except Exception -> st.error
GenerationError(e) == Show("error", "generation_error", e)
APIError == <<"A", "P", "I", "E", "r", "r", "o", "r">>
AttributeError == <<"A", "t", "t", "r", "i", "b", "u", "t", "e", "E", "r", "r", "o", "r">>
TypeError == <<"T", "y", "p", "e", "E", "r", "r", "o", "r">>
KeyError == <<"K", "e", "y", "E", "r", "r", "o", "r">>

EmptyDot == [nodes |-> <<>>, edges |-> <<>>]

DefaultModels ==
    << "openrouter/cypher-alpha:free",
       "mistralai/mistral-small-3.2-24b-instruct:free",
       "deepseek/deepseek-r1:free" >>

(***************************************************************************)
(* The inputs: what the user types, what the model listing answers, what   *)
(* the completion service returns.                                         *)
(***************************************************************************)
MaxFrags == 2     \* a label is made of at most this many fragments
MaxModels == 2    \* the model listing returns at most this many entries

RECURSIVE Concats(_, _)
Concats(F, n) ==
    IF n = 0 THEN {<<>>}
    ELSE Concats(F, n - 1) \cup {f \o g : f \in F, g \in Concats(F, n - 1)}

RECURSIVE SeqsUpTo(_, _)
SeqsUpTo(S, n) ==
    IF n = 0 THEN {<<>>}
    ELSE SeqsUpTo(S, n - 1) \cup {<<x>> \o q : x \in S, q \in SeqsUpTo(S, n - 1)}

CodeInputs == {<<>>, <<" ", "\n">>, <<" ", "f", "(", ")", " ">>}

NodeFragments ==
    { <<"S", "t", "a", "r", "t">>, <<"C", "H", "E", "C", "K">>, <<"i", "f">>, <<"L", "o", "o", "p">>, <<"C", "o", "n", "d", "i", "t", "i", "o", "n">>, <<"R", "e", "t", "u", "r", "n">>, <<"r", "e">>,
      <<"t", "u", "r", "n">>, <<"E", "n", "d">>, <<"C", "a", "l", "l">>, <<"f", "u", "n", "c", "t", "i", "o", "n">>, <<"I", "N", "I", "T", "I", "A", "L", "I", "Z", "E">>, <<"v", "a", "r", "i", "a", "b", "l", "e">>,
      <<"A", "s", "s", "i", "g", "n">>, <<" ", "x">> }
NodeLabels == Concats(NodeFragments, MaxFrags)

EdgeFragments ==
    { <<"Y", "e", "s">>, <<"n", "o">>, <<"N", "O">>, <<"T", "r", "u", "e">>, <<"f", "a", "l", "s", "e">>, <<"N", "e", "x", "t", " ">>, <<"I", "t", "e", "r", "a", "t", "i", "o", "n">>,
      <<"l", "o", "o", "p">>, <<" ">>, <<"t">> }
EdgeLabels == Concats(EdgeFragments, MaxFrags)

\* the model listing: it raises, or answers with entries whose id and model
\* are None, "" or an identifier (a dict and an object are read alike)
None == "None"
ListEntries == [id : {None, "", "m1"}, model : {None, "m2"}]
NoListing == [raises |-> FALSE, data |-> <<>>]
ListingFailed == [raises |-> TRUE, data |-> <<>>]
ListResponses ==
    {ListingFailed} \cup
    [raises : {FALSE}, data : SeqsUpTo(ListEntries, MaxModels)]

Node(id, label) == JObj(<<<<"i", "d">>, <<"l", "a", "b", "e", "l">>>>, <<JStr(id), JStr(label)>>)
Edge(from, to) == JObj(<<<<"f", "r", "o", "m">>, <<"t", "o">>>>, <<JStr(from), JStr(to)>>)
EdgeL(from, to, label) ==
    JObj(<<<<"f", "r", "o", "m">>, <<"t", "o">>, <<"l", "a", "b", "e", "l">>>>, <<JStr(from), JStr(to), label>>)
Graph(ns, es) == JObj(<<<<"n", "o", "d", "e", "s">>, <<"e", "d", "g", "e", "s">>>>, <<ns, es>>)

NodeA == Node(<<"A">>, <<"S", "t", "a", "r", "t", ":", " ", "f", "(", "n", ")">>)
NodeB == Node(<<"B">>, <<"R", "e", "t", "u", "r", "n", " ", "1">>)
ExampleGraph == Graph(JArr(<<NodeA, NodeB>>), JArr(<<Edge(<<"A">>, <<"B">>)>>))

\* graphs every element of which has the fields the renderer reads
NodeGraphs == {Graph(JArr(<<Node(<<"A">>, l)>>), JArr(<<>>)) : l \in NodeLabels}
EdgeGraphs ==
    {Graph(JArr(<<NodeA, NodeB>>), JArr(<<EdgeL(<<"A">>, <<"B">>, JStr(l))>>)) :
        l \in EdgeLabels}
SoundGraphs ==
    { ExampleGraph,
      Graph(JArr(<<>>), JArr(<<>>)),
      Graph(JArr(<<Node(<<"A">>, <<"L", "o", "o", "p", " ", "u", "n", "t", "i", "l", " ", "r", "e", "t", "u", "r", "n">>), NodeB, NodeA,
                   Node(<<"C">>, <<>>)>>),
            JArr(<<EdgeL(<<"A">>, <<"B">>, JStr(<<"Y", "e", "s">>)), Edge(<<"B">>, <<"A">>),
                   EdgeL(<<"B">>, <<"B">>, JStr(<<"N", "e", "x", "t", " ", "I", "t", "e", "r", "a", "t", "i", "o", "n">>)),
                   EdgeL(<<"A">>, <<"A">>, JStr(<<>>))>>)),
      Graph(JArr(<<JObj(<<<<"i", "d">>, <<"l", "a", "b", "e", "l">>>>, <<JNum(<<"1">>), JStr(<<"a", "}", "b", "{">>)>>)>>),
            JArr(<<>>)),
      Graph(JStr(<<>>), JObj(<<>>, <<>>)) }

\* edges that name an id no node declares
DanglingGraphs ==
    { Graph(JArr(<<NodeA>>), JArr(<<EdgeL(<<"A">>, <<"Z">>, JStr(<<"Y", "e", "s">>))>>)),
      Graph(JArr(<<NodeA, NodeB>>),
            JArr(<<Edge(<<"Y">>, <<"A">>), Edge(<<"A">>, <<"B">>)>>)) }

\* graphs an element of which lacks a field, or has one of another type
BrokenGraphs ==
    { Graph(JArr(<<NodeA, JObj(<<<<"l", "a", "b", "e", "l">>>>, <<JStr(<<"x">>)>>), NodeB>>),
            JArr(<<Edge(<<"A">>, <<"B">>)>>)),
      Graph(JArr(<<JObj(<<<<"i", "d">>>>, <<JStr(<<"A">>)>>)>>), JArr(<<>>)),
      Graph(JArr(<<JObj(<<<<"i", "d">>, <<"l", "a", "b", "e", "l">>>>, <<JStr(<<"A">>), JNum(<<"7">>)>>)>>),
            JArr(<<>>)),
      Graph(JArr(<<JObj(<<<<"i", "d">>, <<"l", "a", "b", "e", "l">>>>, <<JStr(<<"A">>), JNull>>)>>),
            JArr(<<>>)),
      Graph(JArr(<<NodeA, JStr(<<"B">>)>>), JArr(<<>>)),
      Graph(JArr(<<NodeA>>), JArr(<<JObj(<<<<"t", "o">>>>, <<JStr(<<"A">>)>>)>>)),
      Graph(JArr(<<NodeA>>), JArr(<<JObj(<<<<"f", "r", "o", "m">>>>, <<JStr(<<"A">>)>>)>>)),
      Graph(JArr(<<NodeA>>), JArr(<<EdgeL(<<"A">>, <<"A">>, JNull)>>)),
      Graph(JArr(<<NodeA>>), JArr(<<EdgeL(<<"A">>, <<"A">>, JNum(<<"1">>))>>)),
      Graph(JArr(<<NodeA>>), JArr(<<JArr(<<JStr(<<"A">>)>>)>>)),
      Graph(JStr(<<"a", "b">>), JArr(<<>>)),
      Graph(JNull, JArr(<<>>)),
      Graph(JArr(<<NodeA>>), JNum(<<"3">>)),
      Graph(JObj(<<<<"A">>>>, <<NodeA>>), JArr(<<>>)) }

RenderGraphs ==
    NodeGraphs \cup EdgeGraphs \cup SoundGraphs \cup DanglingGraphs \cup BrokenGraphs

\* completion texts: a JSON value between a prefix and a suffix, or other text
Prefixes == {<<>>, <<" ", "\n">>, <<"S", "u", "r", "e", "!", " ", "H", "e", "r", "e", " ", "i", "s", " ", "t", "h", "e", " ", "J", "S", "O", "N", ":", "\n">>, <<"[">>, <<"{", " ">>, <<"}", " ">>}
Suffixes == {<<>>, <<"\n">>, <<"\n", "H", "o", "p", "e", " ", "t", "h", "a", "t", " ", "h", "e", "l", "p", "s">>, <<"]">>, <<" ", "}">>, <<" ", "{">>}

ObjectValues ==
    { ExampleGraph,
      Graph(JArr(<<Node(<<"A">>, <<"a", "}", "b", "{">>)>>), JArr(<<>>)),
      Graph(JNull, JNum(<<"3">>)),
      JObj(<<<<"t", "i", "t", "l", "e">>, <<"e", "d", "g", "e", "s">>, <<"n", "o", "d", "e", "s">>>>, <<JStr(<<"t">>), JArr(<<>>), JArr(<<>>)>>),
      JObj(<<<<"n", "o", "d", "e", "s">>>>, <<JArr(<<NodeA>>)>>),
      JObj(<<<<"e", "d", "g", "e", "s">>>>, <<JArr(<<>>)>>),
      JObj(<<<<"N", "o", "d", "e", "s">>, <<"E", "d", "g", "e", "s">>>>, <<JArr(<<>>), JArr(<<>>)>>),
      JObj(<<>>, <<>>) }
OtherValues ==
    { JNum(<<"4", "2">>), JNull, JBool(<<"t", "r", "u", "e">>), JArr(<<>>),
      JArr(<<JStr(<<"n", "o", "d", "e", "s">>), JStr(<<"e", "d", "g", "e", "s">>)>>), JArr(<<JStr(<<"n", "o", "d", "e", "s">>)>>),
      JStr(<<"n", "o", "d", "e", "s", " ", "e", "d", "g", "e", "s">>), JStr(<<"n", "o", "d", "e", "s">>), JStr(<<>>) }
RawTexts ==
    { <<>>, <<"I", " ", "c", "a", "n", "n", "o", "t", " ", "h", "e", "l", "p", " ", "w", "i", "t", "h", " ", "t", "h", "a", "t", ".">>, <<"{">>, <<"}", "{">>, <<"{", "\"", "n", "o", "d", "e", "s", "\"", ":", " ", "[", "}">>,
      <<"{", "'", "n", "o", "d", "e", "s", "'", ":", " ", "[", "]", ",", " ", "'", "e", "d", "g", "e", "s", "'", ":", " ", "[", "]", "}">>,
      <<"{", "\"", "n", "o", "d", "e", "s", "\"", ":", " ", "1", ",", " ", "\"", "n", "o", "d", "e", "s", "\"", ":", " ", "[", "]", ",", " ", "\"", "e", "d", "g", "e", "s", "\"", ":", " ", "[", "]", "}">>,
      <<"{", "\"", "n", "o", "d", "e", "s", "\"", ":", " ", "[", "]", ",", " ", "\"", "e", "d", "g", "e", "s", "\"", ":", " ", "[", "]", ",", "}">>, <<"n", "o", "d", "e", "s", " ", "e", "d", "g", "e", "s">> }

ExtractTexts ==
    {p \o JsonDumps(v) \o q :
        p \in Prefixes, v \in ObjectValues \cup OtherValues, q \in Suffixes}
    \cup RawTexts

\* what a completion call does: it raises, or returns a message whose
\* content is None, or returns text
Raises == [kind |-> "raises", content |-> <<>>]
NoContent == [kind |-> "none", content |-> <<>>]
Text(t) == [kind |-> "text", content |-> t]

FlowchartOutcomes ==
    {Raises, NoContent} \cup
    {Text(t) : t \in RawTexts} \cup
    {Text(JsonDumps(v)) : v \in ObjectValues \cup OtherValues} \cup
    {Text(<<"S", "u", "r", "e", "!", " ", "H", "e", "r", "e", " ", "i", "s", " ", "t", "h", "e", " ", "J", "S", "O", "N", ":", "\n">> \o JsonDumps(v) \o <<"\n", "H", "o", "p", "e", " ", "t", "h", "a", "t", " ", "h", "e", "l", "p", "s", "\n">>) :
        v \in {ExampleGraph, JObj(<<<<"n", "o", "d", "e", "s">>>>, <<JArr(<<NodeA>>)>>), JNum(<<"4", "2">>)}} \cup
    {Text(JsonDumps(g)) : g \in SoundGraphs \cup DanglingGraphs \cup BrokenGraphs}

ExplanationOutcomes == {Raises, NoContent, Text(<<" ", "I", "t", " ", "*", "*", "c", "o", "m", "p", "u", "t", "e", "s", "*", "*", " ", "f", ".", "\n">>)}

(***************************************************************************)
(* The script, top to bottom.                                              *)
(***************************************************************************)
\* the state in which a run starts: nothing computed, nothing shown
FreshRun ==
    /\ pc = "start"
    /\ resp = NoListing
    /\ available_models = <<>>
    /\ model_choice = ""
    /\ calls = <<>>
    /\ flowchart_response = <<>>
    /\ flowchart_output = <<>>
    /\ code_explanation = <<>>
    /\ json_string = <<>>
    /\ graph_data = JNull
    /\ pending = <<>>
    /\ dot = EmptyDot
    /\ screen = <<>>

\* the first run, when the page is opened: nothing typed, nothing pressed
Init ==
    /\ openrouter_api_key \in {"set", "unset"}
    /\ prev_failed = FALSE
    /\ code_input = <<>>
    /\ pressed = FALSE
    /\ FreshRun

\* lines 16-46: the API key, the client, the title
Start ==
    /\ pc = "start"
    /\ IF openrouter_api_key = "unset"
       THEN /\ screen' = Append(screen, Show("error", "api_key_missing", <<>>))
            /\ pc' = "stopped"
       ELSE /\ screen' = screen \o <<Show("title", "title", <<>>),
                                     Show("markdown", "intro", <<>>)>>
            /\ pc' = "discover"
    /\ UNCHANGED <<inputVars, modelVars, callVars, graphVars, drawVars>>

Truthy(x) == x # None /\ x # ""

\* m.get("id") or m.get("model")  /  getattr(m, "id", None) or getattr(m, "model", None)
ModelId(m) == IF Truthy(m.id) THEN m.id ELSE m.model

\* the loop over data: the identifiers of the entries that have one, in order
RECURSIVE UsableIds(_)
UsableIds(data) ==
    IF data = <<>> THEN <<>>
    ELSE (IF Truthy(ModelId(Head(data))) THEN <<ModelId(Head(data))>> ELSE <<>>)
         \o UsableIds(Tail(data))

\* the test `if model_id:` left out: every entry is appended
AvailableModelsUnfiltered(r) ==
    LET found == IF r.raises THEN <<>> ELSE [i \in 1..Len(r.data) |-> ModelId(r.data[i])]
    IN  IF found = <<>> THEN DefaultModels ELSE found

\* lines 61-88: available_models after discovery and fallback
AvailableModels(r) ==
    LET found == IF r.raises THEN <<>> ELSE UsableIds(r.data)
    IN  IF found = <<>> THEN DefaultModels ELSE found

\* lines 61-90: model discovery, fallback, the select box
Discover ==
    /\ pc = "discover"
    /\ \E r \in ListResponses :
         /\ resp' = r
         /\ available_models' = AvailableModels(r)
         /\ \E i \in 1..Len(AvailableModels(r)) :
                model_choice' = AvailableModels(r)[i]
         /\ screen' = IF r.raises
                      THEN Append(screen, Show("warning", "model_list", <<>>))
                      ELSE screen
    /\ pc' = "button"
    /\ UNCHANGED <<inputVars, callVars, graphVars, drawVars>>

\* not code_input: the strip left out
BlankUnstripped(text) == text = <<>>

\* not code_input.strip()
Blank(text) == Strip(text) = <<>>

\* lines 95-99: the button and the guard on the input
Button ==
    /\ pc = "button"
    /\ IF ~pressed
       THEN pc' = "footer" /\ screen' = screen
       ELSE IF Blank(code_input)
       THEN /\ pc' = "footer"
            /\ screen' = Append(screen, Show("warning", "paste_code_first", <<>>))
       ELSE pc' = "flowchart" /\ screen' = screen
    /\ UNCHANGED <<inputVars, modelVars, callVars, graphVars, drawVars>>

Call(kind) == [kind |-> kind, model |-> model_choice, code |-> code_input]

\* lines 185-193: the flowchart completion
FlowchartCall ==
    /\ pc = "flowchart"
    /\ calls' = Append(calls, Call("flowchart"))
    /\ \E out \in FlowchartOutcomes :
         IF out.kind = "text"
         THEN /\ flowchart_response' = out.content
              /\ flowchart_output' = Strip(out.content)
              /\ pc' = "explain"
              /\ screen' = screen
         ELSE /\ screen' = Append(screen, GenerationError(
                               IF out.kind = "raises" THEN APIError ELSE AttributeError))
              /\ pc' = "footer"
              /\ UNCHANGED <<flowchart_response, flowchart_output>>
    /\ UNCHANGED <<inputVars, modelVars, code_explanation, graphVars, drawVars>>

\* the explanation call outside the try block's reach: its failure is shown
\* and the run goes on to the extraction
ExplanationCallGoesOn ==
    /\ pc = "explain"
    /\ calls' = Append(calls, Call("explanation"))
    /\ \E out \in ExplanationOutcomes :
         IF out.kind = "text"
         THEN /\ code_explanation' = Strip(out.content)
              /\ pc' = "extract"
              /\ screen' = screen
         ELSE /\ screen' = Append(screen, GenerationError(
                               IF out.kind = "raises" THEN APIError ELSE AttributeError))
              /\ pc' = "extract"
              /\ UNCHANGED code_explanation
    /\ UNCHANGED <<inputVars, modelVars, flowchart_response, flowchart_output,
                   graphVars, drawVars>>

\* lines 196-204: the explanation completion
ExplanationCall ==
    /\ pc = "explain"
    /\ calls' = Append(calls, Call("explanation"))
    /\ \E out \in ExplanationOutcomes :
         IF out.kind = "text"
         THEN /\ code_explanation' = Strip(out.content)
              /\ pc' = "extract"
              /\ screen' = screen
         ELSE /\ screen' = Append(screen, GenerationError(
                               IF out.kind = "raises" THEN APIError ELSE AttributeError))
              /\ pc' = "footer"
              /\ UNCHANGED code_explanation
    /\ UNCHANGED <<inputVars, modelVars, flowchart_response, flowchart_output,
                   graphVars, drawVars>>

\* the slice stops before the last brace
JsonStringShort(text) ==
    LET json_start == Find(text, "{")
        json_end == RFind(text, "}")
    IN  IF json_start # -1 /\ json_end # -1 /\ json_end > json_start
        THEN SubSeq(text, json_start + 1, json_end)
        ELSE text

\* lines 208-214: the candidate JSON text
JsonString(text) ==
    LET json_start == Find(text, "{")
        json_end == RFind(text, "}")
    IN  IF json_start # -1 /\ json_end # -1 /\ json_end > json_start
        THEN SubSeq(text, json_start + 1, json_end + 1)
        ELSE text

ExtractJson ==
    /\ pc = "extract"
    /\ json_string' = JsonString(flowchart_output)
    /\ pc' = "parse"
    /\ UNCHANGED <<inputVars, modelVars, callVars, graph_data, drawVars, screen>>

\* st.stop() left out: the error and the text are shown and the run goes on
ShowRawAndGoOn(msg) ==
    /\ screen' = screen \o <<Show("error", msg, <<>>), Show("code", "raw", flowchart_output)>>
    /\ pc' = "nodes"

\* st.error(...), st.code(flowchart_output), st.stop().  st.stop() raises
\* StopException, a BaseException: the `except Exception` of line 315 does
\* not catch it, and the run ends here, before the footer.
StopWithRaw(msg) ==
    /\ screen' = screen \o <<Show("error", msg, <<>>), Show("code", "raw", flowchart_output)>>
    /\ pc' = "stopped"

\* lines 217-222: json.loads
ParseJson ==
    /\ pc = "parse"
    /\ IF JsonLoads(json_string).ok
       THEN /\ graph_data' = JsonLoads(json_string).v
            /\ pc' = "validate"
            /\ screen' = screen
       ELSE /\ StopWithRaw("invalid_json")
            /\ UNCHANGED graph_data
    /\ UNCHANGED <<inputVars, modelVars, callVars, json_string, drawVars>>

\* lines 225-228: "nodes" in graph_data and "edges" in graph_data
ValidateKeys ==
    /\ pc = "validate"
    /\ IF ~InDefined(graph_data)
       THEN screen' = Append(screen, GenerationError(TypeError)) /\ pc' = "footer"
       ELSE IF ~(In(<<"n", "o", "d", "e", "s">>, graph_data) /\ In(<<"e", "d", "g", "e", "s">>, graph_data))
       THEN StopWithRaw("missing_keys")
       ELSE pc' = "nodes" /\ screen' = screen
    /\ UNCHANGED <<inputVars, modelVars, callVars, graphVars, drawVars>>

\* lines 233-236: the Digraph, and the start of the loop over graph_data["nodes"]
BeginNodes ==
    /\ pc = "nodes"
    /\ IF ~Subscriptable(graph_data, <<"n", "o", "d", "e", "s">>)
       THEN /\ screen' = Append(screen, GenerationError(TypeError))
            /\ pc' = "footer"
            /\ UNCHANGED pending
       ELSE IF ~Iterable(Get(graph_data, <<"n", "o", "d", "e", "s">>))
       THEN /\ screen' = Append(screen, GenerationError(TypeError))
            /\ pc' = "footer"
            /\ UNCHANGED pending
       ELSE /\ pending' = Elements(Get(graph_data, <<"n", "o", "d", "e", "s">>))
            /\ pc' = "node_loop"
            /\ screen' = screen
    /\ dot' = EmptyDot
    /\ UNCHANGED <<inputVars, modelVars, callVars, graphVars>>

\* lines 237-273: what dot.node is called with
DotNode(node) ==
    LET node_label == Get(node, <<"l", "a", "b", "e", "l">>).s
        style == NodeStyle(node_label)
    IN  [ name |-> <<"N", "_">> \o PyStr(Get(node, <<"i", "d">>)),
          label |-> node_label,
          shape |-> style.shape,
          style |-> "filled",
          fillcolor |-> style.fillcolor,
          fontcolor |-> style.fontcolor,
          tooltip |-> node_label ]

\* node['id'], node["label"] and node_label.lower() all succeed
NodeRenders(node) ==
    /\ Subscriptable(node, <<"i", "d">>)
    /\ Subscriptable(node, <<"l", "a", "b", "e", "l">>)
    /\ Get(node, <<"l", "a", "b", "e", "l">>).t = "str"

\* lines 236-273: one iteration of the loop over the nodes
RenderNode ==
    /\ pc = "node_loop"
    /\ pending # <<>>
    /\ IF NodeRenders(Head(pending))
       THEN /\ dot' = [dot EXCEPT !.nodes = Append(@, DotNode(Head(pending)))]
            /\ pending' = Tail(pending)
            /\ UNCHANGED <<pc, screen>>
       ELSE /\ screen' = Append(screen, GenerationError(
                             IF Head(pending).t # "obj" THEN TypeError
                             ELSE IF HasKey(Head(pending), <<"i", "d">>)
                                     /\ HasKey(Head(pending), <<"l", "a", "b", "e", "l">>)
                             THEN AttributeError ELSE KeyError))
            /\ pc' = "footer"
            /\ UNCHANGED <<pending, dot>>
    /\ UNCHANGED <<inputVars, modelVars, callVars, graphVars>>

\* line 276: the start of the loop over graph_data["edges"]
BeginEdges ==
    /\ pc = "node_loop"
    /\ pending = <<>>
    /\ IF Iterable(Get(graph_data, <<"e", "d", "g", "e", "s">>))
       THEN /\ pending' = Elements(Get(graph_data, <<"e", "d", "g", "e", "s">>))
            /\ pc' = "edge_loop"
            /\ screen' = screen
       ELSE /\ screen' = Append(screen, GenerationError(TypeError))
            /\ pc' = "footer"
            /\ UNCHANGED pending
    /\ UNCHANGED <<inputVars, modelVars, callVars, graphVars, dot>>

\* edge.get("label", "")
LabelText(edge) ==
    IF HasKey(edge, <<"l", "a", "b", "e", "l">>) THEN Get(edge, <<"l", "a", "b", "e", "l">>) ELSE JStr(<<>>)

\* lines 277-297: what dot.edge is called with
DotEdge(edge) ==
    [ tail |-> <<"N", "_">> \o PyStr(Get(edge, <<"f", "r", "o", "m">>)),
      head |-> <<"N", "_">> \o PyStr(Get(edge, <<"t", "o">>)),
      label |-> LabelText(edge).s,
      color |-> EdgeColor(LabelText(edge).s),
      penwidth |-> "2.0" ]

\* edge['from'], edge['to'] and label_text.lower() all succeed
EdgeRenders(edge) ==
    /\ Subscriptable(edge, <<"f", "r", "o", "m">>)
    /\ Subscriptable(edge, <<"t", "o">>)
    /\ LabelText(edge).t = "str"

\* lines 276-297: one iteration of the loop over the edges
RenderEdge ==
    /\ pc = "edge_loop"
    /\ pending # <<>>
    /\ IF EdgeRenders(Head(pending))
       THEN /\ dot' = [dot EXCEPT !.edges = Append(@, DotEdge(Head(pending)))]
            /\ pending' = Tail(pending)
            /\ UNCHANGED <<pc, screen>>
       ELSE /\ screen' = Append(screen, GenerationError(
                             IF Head(pending).t # "obj" THEN TypeError
                             ELSE IF Subscriptable(Head(pending), <<"f", "r", "o", "m">>)
                                     /\ Subscriptable(Head(pending), <<"t", "o">>)
                             THEN AttributeError ELSE KeyError))
            /\ pc' = "footer"
            /\ UNCHANGED <<pending, dot>>
    /\ UNCHANGED <<inputVars, modelVars, callVars, graphVars>>

\* lines 300-302: st.graphviz_chart(dot)
ShowChart ==
    /\ pc = "edge_loop"
    /\ pending = <<>>
    /\ screen' = Append(screen, Show("graphviz_chart", "dot", <<>>))
    /\ pc' = "explanation"
    /\ UNCHANGED <<inputVars, modelVars, callVars, graphVars, drawVars>>

\* lines 305-307: the explanation
ShowExplanation ==
    /\ pc = "explanation"
    /\ screen' = screen \o <<Show("markdown", "rule", <<>>),
                             Show("subheader", "code_explanation", <<>>),
                             Show("write", "explanation", code_explanation)>>
    /\ pc' = "rawjson"
    /\ UNCHANGED <<inputVars, modelVars, callVars, graphVars, drawVars>>

\* lines 312-313: the raw JSON, pretty-printed
ShowRawJson ==
    /\ pc = "rawjson"
    /\ screen' = screen \o <<Show("expander", "raw_json", <<>>),
                             Show("code", "json", Dumps(graph_data, 2, 0))>>
    /\ pc' = "footer"
    /\ UNCHANGED <<inputVars, modelVars, callVars, graphVars, drawVars>>

\* lines 318-319: the footer
Footer ==
    /\ pc = "footer"
    /\ screen' = screen \o <<Show("markdown", "rule", <<>>),
                             Show("caption", "built_with", <<>>)>>
    /\ pc' = "done"
    /\ UNCHANGED <<inputVars, modelVars, callVars, graphVars, drawVars>>

\* a completion call of this run raised
CompletionFailed ==
    \E i \in 1..Len(screen) : screen[i] = GenerationError(APIError)

\* the next interaction: the script runs again from the top, with what the
\* user has typed and pressed in the widgets the last run has put on the
\* page (none when it stopped for want of the key); the process and its
\* environment go on
Rerun ==
    /\ pc \in {"done", "stopped"}
    /\ prev_failed' = CompletionFailed
    /\ code_input' \in (IF openrouter_api_key = "set" THEN CodeInputs ELSE {code_input})
    /\ pressed' \in (IF openrouter_api_key = "set" THEN BOOLEAN ELSE {FALSE})
    /\ pc' = "start"
    /\ resp' = NoListing
    /\ available_models' = <<>>
    /\ model_choice' = ""
    /\ calls' = <<>>
    /\ flowchart_response' = <<>>
    /\ flowchart_output' = <<>>
    /\ code_explanation' = <<>>
    /\ json_string' = <<>>
    /\ graph_data' = JNull
    /\ pending' = <<>>
    /\ dot' = EmptyDot
    /\ screen' = <<>>
    /\ UNCHANGED openrouter_api_key

Next ==
    \/ Start
    \/ Discover
    \/ Button
    \/ FlowchartCall
    \/ ExplanationCall
    \/ ExtractJson
    \/ ParseJson
    \/ ValidateKeys
    \/ BeginNodes
    \/ RenderNode
    \/ BeginEdges
    \/ RenderEdge
    \/ ShowChart
    \/ ShowExplanation
    \/ ShowRawJson
    \/ Footer
    \/ Rerun

Spec == Init /\ [][Next]_vars

(***************************************************************************)
(* The extraction alone: the run has made both completion calls, and the   *)
(* flowchart completion is any of ExtractTexts.                            *)
(***************************************************************************)
AfterCalls ==
    /\ openrouter_api_key = "set"
    /\ prev_failed = FALSE
    /\ code_input = <<" ", "f", "(", ")", " ">>
    /\ pressed = TRUE
    /\ resp = ListingFailed
    /\ available_models = DefaultModels
    /\ model_choice = DefaultModels[1]
    /\ calls = <<[kind |-> "flowchart", model |-> DefaultModels[1], code |-> <<" ", "f", "(", ")", " ">>],
                 [kind |-> "explanation", model |-> DefaultModels[1], code |-> <<" ", "f", "(", ")", " ">>]>>
    /\ code_explanation = <<"I", "t", " ", "*", "*", "c", "o", "m", "p", "u", "t", "e", "s", "*", "*", " ", "f", ".">>
    /\ pending = <<>>
    /\ dot = EmptyDot
    /\ screen = <<Show("title", "title", <<>>), Show("markdown", "intro", <<>>),
                  Show("warning", "model_list", <<>>)>>

InitExtract ==
    /\ AfterCalls
    /\ flowchart_response \in ExtractTexts
    /\ flowchart_output = Strip(flowchart_response)
    /\ json_string = <<>>
    /\ graph_data = JNull
    /\ pc = "extract"

NextExtract ==
    \/ ExtractJson
    \/ ParseJson
    \/ ValidateKeys

SpecExtract == InitExtract /\ [][NextExtract]_vars

(***************************************************************************)
(* The rendering alone: the run has validated a graph of RenderGraphs.     *)
(***************************************************************************)
InitRender ==
    /\ AfterCalls
    /\ graph_data \in RenderGraphs
    /\ flowchart_response = JsonDumps(graph_data)
    /\ flowchart_output = flowchart_response
    /\ json_string = flowchart_response
    /\ pc = "nodes"

NextRender ==
    \/ BeginNodes
    \/ RenderNode
    \/ BeginEdges
    \/ RenderEdge
    \/ ShowChart
    \/ ShowExplanation
    \/ ShowRawJson
    \/ Footer

SpecRender == InitRender /\ [][NextRender]_vars

(***************************************************************************)
(* The claims.                                                             *)
(***************************************************************************)
Shown(w, msg) == \E i \in 1..Len(screen) : screen[i].w = w /\ screen[i].msg = msg
NoBraces(text) == \A i \in 1..Len(text) : text[i] # "{" /\ text[i] # "}"
Last(q) == q[Len(q)]

\* the keyword groups of the node table, on a lower-cased label
IsStart(l) == Contains(l, <<"s", "t", "a", "r", "t">>)
IsDecision(l) ==
    \E kw \in {<<"c", "h", "e", "c", "k">>, <<"i", "f">>, <<"l", "o", "o", "p">>, <<"c", "o", "n", "d", "i", "t", "i", "o", "n">>} : Contains(l, kw)
IsEnd(l) == \E kw \in {<<"r", "e", "t", "u", "r", "n">>, <<"e", "n", "d">>} : Contains(l, kw)
IsCall(l) == \E kw \in {<<"c", "a", "l", "l">>, <<"f", "u", "n", "c", "t", "i", "o", "n">>} : Contains(l, kw)
IsData(l) == \E kw \in {<<"i", "n", "i", "t", "i", "a", "l", "i", "z", "e">>, <<"v", "a", "r", "i", "a", "b", "l", "e">>, <<"a", "s", "s", "i", "g", "n">>} : Contains(l, kw)

Looks(n, shape, fill, font) ==
    n.shape = shape /\ n.fillcolor = fill /\ n.fontcolor = font

NodeFollowsTable(n) ==
    LET l == Lower(n.label)
    IN  /\ IsStart(l) => Looks(n, "oval", Green, "white")
        /\ ~IsStart(l) /\ IsDecision(l) => Looks(n, "diamond", Yellow, "black")
        /\ ~IsStart(l) /\ ~IsDecision(l) /\ IsEnd(l) => Looks(n, "oval", Purple, "white")
        /\ ~IsStart(l) /\ ~IsDecision(l) /\ ~IsEnd(l) /\ IsCall(l)
              => Looks(n, "box", Red, "white")
        /\ ~IsStart(l) /\ ~IsDecision(l) /\ ~IsEnd(l) /\ ~IsCall(l) /\ IsData(l)
              => Looks(n, "box", LightBlue, "black")
        /\ ~IsStart(l) /\ ~IsDecision(l) /\ ~IsEnd(l) /\ ~IsCall(l) /\ ~IsData(l)
              => Looks(n, "box", Blue, "white")

\* the i-th element of graph_data["nodes"] / graph_data["edges"]
NodeAt(i) == Elements(Get(graph_data, <<"n", "o", "d", "e", "s">>))[i]
EdgeAt(i) == Elements(Get(graph_data, <<"e", "d", "g", "e", "s">>))[i]

\* C1: every node label, the empty one included, gets exactly one style, that
\* of the first keyword group (in the table's order) its lower-cased text
\* contains, or the default; a node with an id and a text label is never
\* what stops the loop over the nodes.
C1_NodeStyleTotalFirstMatch ==
    /\ \A i \in 1..Len(dot.nodes) :
          /\ dot.nodes[i].label = Get(NodeAt(i), <<"l", "a", "b", "e", "l">>).s
          /\ NodeFollowsTable(dot.nodes[i])
    /\ pc \in {"footer", "done"} /\ Len(dot.nodes) < Len(Elements(Get(graph_data, <<"n", "o", "d", "e", "s">>)))
          => ~NodeRenders(NodeAt(Len(dot.nodes) + 1))

\* a label of two groups ("loop" and "return") drawn as the earlier group,
\* beside the empty label drawn as the default
C1_Witness ==
    /\ pc = "done"
    /\ \E i \in 1..Len(dot.nodes) :
          /\ IsDecision(Lower(dot.nodes[i].label))
          /\ IsEnd(Lower(dot.nodes[i].label))
          /\ Looks(dot.nodes[i], "diamond", Yellow, "black")
    /\ \E i \in 1..Len(dot.nodes) :
          dot.nodes[i].label = <<>> /\ Looks(dot.nodes[i], "box", Blue, "white")

EdgeFollowsTable(e) ==
    LET l == Lower(e.label)
        yes == l = <<"y", "e", "s">> \/ Contains(l, <<"t", "r", "u", "e">>)
        no == l = <<"n", "o">> \/ Contains(l, <<"f", "a", "l", "s", "e">>)
        loop == Contains(l, <<"i", "t", "e", "r", "a", "t", "i", "o", "n">>) \/ Contains(l, <<"l", "o", "o", "p">>)
    IN  /\ yes => e.color = Green
        /\ ~yes /\ no => e.color = Red
        /\ ~yes /\ ~no /\ loop => e.color = LoopBlue
        /\ ~yes /\ ~no /\ ~loop => e.color = Gray

\* an edge with its two ends whose label is unset or the empty string
Unlabelled(edge) ==
    /\ HasKey(edge, <<"f", "r", "o", "m">>) /\ HasKey(edge, <<"t", "o">>)
    /\ (HasKey(edge, <<"l", "a", "b", "e", "l">>) => Get(edge, <<"l", "a", "b", "e", "l">>) = JStr(<<>>))

\* C2: every edge drawn has the colour of the first row of the edge table its
\* lower-cased label matches, gray when none; an edge whose label is unset or
\* empty is drawn gray, and is never what stops the loop over the edges.
C2_EdgeColourFirstMatch ==
    /\ \A i \in 1..Len(dot.edges) :
          /\ EdgeFollowsTable(dot.edges[i])
          /\ HasKey(EdgeAt(i), <<"l", "a", "b", "e", "l">>) => dot.edges[i].label = Get(EdgeAt(i), <<"l", "a", "b", "e", "l">>).s
          /\ Unlabelled(EdgeAt(i)) => dot.edges[i].color = Gray /\ dot.edges[i].label = <<>>
    /\ pc \in {"footer", "done"} /\ pending # <<>>
          /\ Len(dot.nodes) = Len(Elements(Get(graph_data, <<"n", "o", "d", "e", "s">>)))
          => ~Unlabelled(Head(pending))

\* an edge without a label has been drawn gray
C2_Witness ==
    /\ pc = "done"
    /\ \E i \in 1..Len(dot.edges) :
          /\ ~HasKey(EdgeAt(i), <<"l", "a", "b", "e", "l">>)
          /\ dot.edges[i].color = Gray

\* how the extraction of a run ended
MalformedOutput ==
    /\ pc = "stopped"
    /\ Len(screen) >= 2
    /\ screen[Len(screen) - 1] = Show("error", "invalid_json", <<>>)
    /\ Last(screen) = Show("code", "raw", flowchart_output)
MissingField ==
    /\ pc = "stopped"
    /\ Len(screen) >= 2
    /\ screen[Len(screen) - 1] = Show("error", "missing_keys", <<>>)
    /\ Last(screen) = Show("code", "raw", flowchart_output)
Extracted == pc \notin {"extract", "parse", "validate"}

\* C3: a completion text without "{" and without "}" ends the extraction in
\* MalformedOutput, and in nothing else.
C3_NoBracesIsMalformed ==
    Extracted /\ NoBraces(flowchart_response) => MalformedOutput

\* C4: when the candidate text parses, the extraction ends in MissingField,
\* with the raw text, exactly when the parsed value lacks the key "nodes" or
\* the key "edges".
C4_MissingFieldIffKeyAbsent ==
    Extracted /\ JsonLoads(json_string).ok =>
        (MissingField <=>
            ~(HasKey(JsonLoads(json_string).v, <<"n", "o", "d", "e", "s">>)
              /\ HasKey(JsonLoads(json_string).v, <<"e", "d", "g", "e", "s">>)))

\* C6: a completion text prefix + J + suffix, J the serialisation of an object
\* with the keys "nodes" and "edges", prefix and suffix without braces, is
\* sliced to exactly J and parsed to the graph J encodes.
C6_WrappedJsonRecovered ==
    \A p \in Prefixes, q \in Suffixes, v \in ObjectValues :
        /\ NoBraces(p) /\ NoBraces(q)
        /\ HasKey(v, <<"n", "o", "d", "e", "s">>) /\ HasKey(v, <<"e", "d", "g", "e", "s">>)
        /\ flowchart_response = p \o JsonDumps(v) \o q
        => /\ pc # "extract" => json_string = JsonDumps(v)
           /\ pc \notin {"extract", "parse"} => graph_data = v /\ pc # "stopped"
           /\ Extracted => pc = "nodes"

\* the example graph recovered from inside prose
C6_Witness ==
    /\ pc = "nodes"
    /\ flowchart_response =
          <<"S", "u", "r", "e", "!", " ", "H", "e", "r", "e", " ", "i", "s", " ", "t", "h", "e", " ", "J", "S", "O", "N", ":", "\n">> \o JsonDumps(ExampleGraph) \o <<"\n", "H", "o", "p", "e", " ", "t", "h", "a", "t", " ", "h", "e", "l", "p", "s">>
    /\ json_string = JsonDumps(ExampleGraph)
    /\ graph_data = ExampleGraph

PastParse == {"validate", "nodes", "node_loop", "edge_loop", "explanation", "rawjson"}
PastValidate == PastParse \ {"validate"}

\* C5: once the invalid-JSON or the missing-keys error is on the page, the
\* flowchart text (the completion, stripped) follows it verbatim and is the
\* last thing of the run: the run has stopped, no diagram has been built or
\* shown, and neither the explanation nor the raw-JSON panel is shown.  And a
\* run goes past the parse only with text that parses, past the validation
\* only with "nodes" and "edges" in the value.
C5_BadOutputStopsWithRaw ==
    /\ \A i \in 1..Len(screen) :
          screen[i].w = "error" /\ screen[i].msg \in {"invalid_json", "missing_keys"}
          => /\ i = Len(screen) - 1
             /\ screen[i + 1] = Show("code", "raw", flowchart_output)
             /\ flowchart_output = Strip(flowchart_response)
             /\ pc = "stopped"
             /\ dot = EmptyDot
             /\ ~Shown("graphviz_chart", "dot")
             /\ ~Shown("write", "explanation")
             /\ ~Shown("expander", "raw_json")
    /\ pc \in PastParse => JsonLoads(json_string).ok
    /\ pc \in PastValidate => In(<<"n", "o", "d", "e", "s">>, graph_data) /\ In(<<"e", "d", "g", "e", "s">>, graph_data)

\* the missing-keys stop on a completion wrapped in prose: the whole text is
\* shown, not the slice that was parsed
C5_Witness ==
    /\ MissingField
    /\ json_string # flowchart_output
    /\ flowchart_output # flowchart_response

\* the elements of the graph are objects, the labels are text: only an id
\* may be missing, only an end of an edge may be undeclared
OnlyIdsAtFault ==
    /\ Get(graph_data, <<"n", "o", "d", "e", "s">>).t = "arr"
    /\ Get(graph_data, <<"e", "d", "g", "e", "s">>).t = "arr"
    /\ \A i \in 1..Len(Get(graph_data, <<"n", "o", "d", "e", "s">>).items) :
          /\ NodeAt(i).t = "obj"
          /\ HasKey(NodeAt(i), <<"l", "a", "b", "e", "l">>)
          /\ Get(NodeAt(i), <<"l", "a", "b", "e", "l">>).t = "str"
    /\ \A i \in 1..Len(Get(graph_data, <<"e", "d", "g", "e", "s">>).items) : EdgeRenders(EdgeAt(i))

\* C7: a node without "id" or an edge to or from an undeclared id does not
\* abort the diagram: every node that has an id and every edge is drawn, and
\* the diagram is shown.
C7_InvalidElementsDoNotAbort ==
    pc = "done" /\ OnlyIdsAtFault
    => /\ Shown("graphviz_chart", "dot")
       /\ \A i \in 1..Len(Get(graph_data, <<"n", "o", "d", "e", "s">>).items) :
             HasKey(NodeAt(i), <<"i", "d">>)
             => \E j \in 1..Len(dot.nodes) : dot.nodes[j] = DotNode(NodeAt(i))
       /\ \A i \in 1..Len(Get(graph_data, <<"e", "d", "g", "e", "s">>).items) :
             \E j \in 1..Len(dot.edges) : dot.edges[j] = DotEdge(EdgeAt(i))

\* what holds of C7: with every node carrying an id, undeclared ends of edges
\* abort nothing
C7_DanglingEdgesDrawn ==
    pc = "done" /\ OnlyIdsAtFault
    /\ (\A i \in 1..Len(Get(graph_data, <<"n", "o", "d", "e", "s">>).items) : HasKey(NodeAt(i), <<"i", "d">>))
    => /\ Shown("graphviz_chart", "dot")
       /\ Len(dot.nodes) = Len(Get(graph_data, <<"n", "o", "d", "e", "s">>).items)
       /\ dot.edges = [i \in 1..Len(Get(graph_data, <<"e", "d", "g", "e", "s">>).items) |-> DotEdge(EdgeAt(i))]

\* C8: when a completion call raises, the run shows the error and goes to the
\* footer: it has not stopped, it has built and shown no diagram and shown no
\* explanation, and at its end the footer is the last thing on the page; the
\* run after it starts as any run starts.
C8_CompletionFailureIsContained ==
    /\ CompletionFailed
       => /\ pc \in {"footer", "done"}
          /\ dot = EmptyDot
          /\ ~Shown("graphviz_chart", "dot")
          /\ ~Shown("write", "explanation")
          /\ ~Shown("expander", "raw_json")
          /\ pc = "done" => Last(screen) = Show("caption", "built_with", <<>>)
    /\ prev_failed /\ pc = "start" => FreshRun

\* a run that draws its diagram right after a run whose completion call raised
C8_Witness ==
    /\ prev_failed
    /\ pc = "done"
    /\ Shown("graphviz_chart", "dot")
    /\ Shown("write", "explanation")

HasId(m) == Truthy(m.id) \/ Truthy(m.model)

\* C9: after discovery the list of models is not empty and the choice is one
\* of it; it is the three default identifiers when the listing raised or gave
\* no entry with an identifier, else the identifiers given (id, or model when
\* there is no id), in order; and discovery stops no run.
C9_ModelListNeverEmpty ==
    /\ openrouter_api_key = "set" /\ pc \notin {"start", "discover"}
       => LET usable == SelectSeq(resp.data, HasId)
              ids == [i \in 1..Len(usable) |->
                        IF Truthy(usable[i].id) THEN usable[i].id ELSE usable[i].model]
          IN  /\ available_models # <<>>
              /\ \E i \in 1..Len(available_models) : model_choice = available_models[i]
              /\ resp.raises \/ usable = <<>>
                    => available_models =
                          << "openrouter/cypher-alpha:free",
                             "mistralai/mistral-small-3.2-24b-instruct:free",
                             "deepseek/deepseek-r1:free" >>
              /\ ~resp.raises /\ usable # <<>> => available_models = ids
    /\ openrouter_api_key = "set" /\ pc = "stopped" => Len(calls) = 2

\* the listing answered two entries, neither with an identifier
C9_Witness ==
    /\ pc = "button"
    /\ ~resp.raises
    /\ Len(resp.data) = 2
    /\ \A i \in 1..Len(resp.data) : ~HasId(resp.data[i])
    /\ available_models = DefaultModels

CallKinds == [i \in 1..Len(calls) |-> calls[i].kind]

\* empty, or white space only
OnlyWhitespace(text) == \A i \in 1..Len(text) : text[i] \in {" ", "\n", "\t", "\r"}

\* C10: a press with blank input makes no completion call and produces no
\* diagram, explanation or error, only the warning; a completion call is made
\* only after a press with input that is not blank; the flowchart call comes
\* first, the explanation call second, and nothing is parsed or drawn before
\* both are made.
C10_BlankInputMakesNoCall ==
    /\ pressed /\ OnlyWhitespace(code_input)
       => /\ calls = <<>>
          /\ dot = EmptyDot
          /\ \A i \in 1..Len(screen) :
                screen[i].w \notin {"error", "graphviz_chart", "write", "code", "expander"}
          /\ pc \in {"footer", "done"} => Shown("warning", "paste_code_first")
    /\ calls # <<>> => pressed /\ ~OnlyWhitespace(code_input)
    /\ CallKinds \in {<<>>, <<"flowchart">>, <<"flowchart", "explanation">>}
    /\ \/ pc \in PastParse \cup {"parse"}
       \/ dot # EmptyDot
       \/ graph_data # JNull
       \/ json_string # <<>>
       \/ Shown("code", "raw")
       \/ Shown("graphviz_chart", "dot")
       => CallKinds = <<"flowchart", "explanation">>

\* a press with input of white space only, answered by the warning alone
C10_Witness ==
    /\ pressed
    /\ code_input # <<>>
    /\ OnlyWhitespace(code_input)
    /\ pc = "done"
    /\ Shown("warning", "paste_code_first")
    /\ calls = <<>>

=============================================================================
